---- MODULE Spec2Model ----
(***************************************************************************)
(* Paper-trading execution simulator of Agora-Protocol:                    *)
(*   src/execution/paper_wallet.py    PaperWallet  (the balance ledger)    *)
(*   src/execution/order_executor.py  OrderExecutor (the execution engine) *)
(*                                                                         *)
(* Quantities are Python floats in the source.  The model computes them    *)
(* exactly, as integers over fixed denominators: an amount is held in      *)
(* 1/AmtDen of a coin, a price in 1/PriceDen of the quote asset, a         *)
(* percentage in 1/PctDen, and every ledger balance in 1/Unit of a coin.   *)
(* Floating-point rounding is outside the model.                           *)
(***************************************************************************)
EXTENDS Integers, Sequences, FiniteSets, TLC

VARIABLES
    balances,         \* PaperWallet.balances: dict asset -> quantity (ledger units)
    file,             \* the content of paper_wallet.json on disk
    disk,             \* the condition of the file system (environment)
    last_trade_time,  \* OrderExecutor.last_trade_time
    now,              \* the last reading of time.time()
    paper,            \* OrderExecutor.paper_wallet is set (paper mode) or None (live placeholder)
    fee_pct,          \* OrderExecutor.fee_pct
    slippage_pct,     \* OrderExecutor.slippage_pct
    calls,            \* number of calls made so far (bounded by MaxCalls)
    call,             \* the last completed call: its operation and its result
    th,               \* per thread: the wallet call in progress and its position
    acct,             \* bookkeeping: the construction arguments, the first ledger, the
                      \* totals deposited and withdrawn, the ledger around the call in flight
    held,             \* the mapping a caller was handed by get_all_balances and still holds
    strat             \* CouncilStrategy in a backtest: self.order, self.position, and what
                      \* the broker holds of its orders

vars == <<balances, file, disk, last_trade_time, now, paper, fee_pct, slippage_pct,
          calls, call, th, acct, held, strat>>

-----------------------------------------------------------------------------
(* Bounds of the model *)

MaxCalls == 2
MaxTime == 4
MaxBars == 5

(* Denominators of the fixed-point representation, from the literals of the code *)
AmtDen == 10
PriceDen == 100
PctDen == 100
Unit == AmtDen * PriceDen * PctDen * PctDen

MIN_TRADE_INTERVAL == 2

Assets == {"BTC", "USD", "ETH"}

-----------------------------------------------------------------------------
(* PaperWallet *)

NoFile == [kind |-> "none", data |-> {}]
Corrupt == [kind |-> "corrupt", data |-> {}]

\* json.dump(self.balances, f): one "key": value member per dict entry
Dump(b) == [kind |-> "json", data |-> {<<k, b[k]>> : k \in DOMAIN b}]

\* json.load(f) of a file json.dump wrote: the dict of its members
Load(f) == [k \in {p[1] : p \in f.data} |-> (CHOOSE p \in f.data : p[1] = k)[2]]

\* self.balances.get(currency, 0.0)
get_balance(b, currency) == IF currency \in DOMAIN b THEN b[currency] ELSE 0

\* self.balances[currency] = v
SetItem(b, currency, v) ==
    [k \in DOMAIN b \cup {currency} |-> IF k = currency THEN v ELSE b[k]]

\* save(): open(filename, 'w') and json.dump; every exception is logged and dropped.
\*   disk "ok":     the file holds the dump
\*   disk "denied": open() raises, the file is as it was
\*   disk "full":   open() has truncated the file and the write raises
save(b, f, dsk) ==
    CASE dsk = "ok" -> Dump(b)
      [] dsk = "denied" -> f
      [] OTHER -> Corrupt

\* _init_defaults(): the balances it sets
init_defaults(initial_capital, initial_holdings) ==
    [k \in {"USD"} \cup DOMAIN initial_holdings |->
        IF k \in DOMAIN initial_holdings THEN initial_holdings[k] ELSE initial_capital]

\* load(): whether the file exists and open + json.load succeed
LoadSucceeds(f, dsk) == f.kind = "json" /\ dsk # "denied"

\* load(): the balances after construction
load_balances(f, dsk, initial_capital, initial_holdings) ==
    IF LoadSucceeds(f, dsk) THEN Load(f)
    ELSE init_defaults(initial_capital, initial_holdings)

\* load(): the file after construction (_init_defaults ends with save())
load_file(f, dsk, initial_capital, initial_holdings) ==
    IF LoadSucceeds(f, dsk) THEN f
    ELSE save(init_defaults(initial_capital, initial_holdings), f, dsk)

\* deposit(currency, amount): the balances after it
deposit_balances(b, currency, amount) ==
    IF amount < 0 THEN b
    ELSE SetItem(b, currency, get_balance(b, currency) + amount)

\* deposit that saves before it adds
deposit_file_stale(b, f, dsk, currency, amount) ==
    IF amount < 0 THEN f
    ELSE save(b, f, dsk)

\* deposit(currency, amount): the file after it
deposit_file(b, f, dsk, currency, amount) ==
    IF amount < 0 THEN f
    ELSE save(deposit_balances(b, currency, amount), f, dsk)

\* withdraw without its balance check
withdraw_result_unchecked(b, currency, amount) == amount >= 0

\* withdraw with > for >=
withdraw_result_strict(b, currency, amount) ==
    IF amount < 0 THEN FALSE
    ELSE get_balance(b, currency) > amount

\* withdraw(currency, amount): its return value
withdraw_result(b, currency, amount) ==
    IF amount < 0 THEN FALSE
    ELSE get_balance(b, currency) >= amount

\* withdraw(currency, amount): the balances after it
withdraw_balances(b, currency, amount) ==
    IF withdraw_result(b, currency, amount)
    THEN SetItem(b, currency, get_balance(b, currency) - amount)
    ELSE b

\* withdraw(currency, amount): the file after it
withdraw_file(b, f, dsk, currency, amount) ==
    IF withdraw_result(b, currency, amount)
    THEN save(withdraw_balances(b, currency, amount), f, dsk)
    ELSE f

-----------------------------------------------------------------------------
(* OrderExecutor: price discovery and settlement *)

\* An optional number (a price that may be None): <<>> or <<n>>
None == <<>>
Some(n) == <<n>>

\* An order book argument: absent (None), or the two level lists [price, volume]
NoBook == [present |-> FALSE, asks |-> <<>>, bids |-> <<>>]
Book(asks, bids) == [present |-> TRUE, asks |-> asks, bids |-> bids]

Min(a, b) == IF a <= b THEN a ELSE b

\* Python truth of a price: None and 0 are false
Truthy(price) == price # None /\ price[1] # 0

\* A call that returns None, with what it logged before
Rejected(log) == [kind |-> "none", log |-> log]
NoResult == Rejected("")
Raised(exc) == [kind |-> "raise", exc |-> exc]

\* The loop over the levels (lines 128-133) from level i on: amounts in 1/AmtDen,
\* total_cost in 1/(AmtDen*PriceDen*PctDen) of the quote asset
RECURSIVE WalkLevels(_, _, _, _)
WalkLevels(levels, i, total_cost, remaining_amount) ==
    IF i > Len(levels) THEN [total_cost |-> total_cost, remaining_amount |-> remaining_amount]
    ELSE LET p == levels[i][1] * PriceDen
             v == levels[i][2] * AmtDen
             fill == Min(remaining_amount, v)
             total == total_cost + fill * p * PctDen
             remaining == remaining_amount - fill
         IN  IF remaining <= 0
             THEN [total_cost |-> total, remaining_amount |-> remaining]
             ELSE WalkLevels(levels, i + 1, total, remaining)

\* The book walk that prices the remainder at the last level, without penalty
BookCostNoPenalty(side, levels, amount) ==
    LET w == WalkLevels(levels, 1, 0, amount)
        last_p == levels[Len(levels)][1] * PriceDen
    IN  IF w.remaining_amount > 0
        THEN w.total_cost + w.remaining_amount * last_p * PctDen
        ELSE w.total_cost

\* The book walk with its depth penalty (lines 124-140): total_cost
BookCost(side, levels, amount) ==
    LET w == WalkLevels(levels, 1, 0, amount)
        last_p == levels[Len(levels)][1] * PriceDen
        penalty_price == IF side = "buy" THEN last_p * 105 ELSE last_p * 95
    IN  IF w.remaining_amount > 0
        THEN w.total_cost + w.remaining_amount * penalty_price
        ELSE w.total_cost

\* Price discovery that walks the asks for a sell too
DiscoverAsksOnly(side, symbol, amount, price, order_book, slip) ==
    IF ~Truthy(price) /\ ~order_book.present
    THEN Rejected("Paper trade requires price or order book.")
    ELSE IF Len(symbol) # 2 THEN Raised("ValueError")
    ELSE IF order_book.present
    THEN LET levels == order_book.asks
         IN  IF levels # <<>>
             THEN IF amount = 0 THEN Raised("ZeroDivisionError")
                  ELSE IF price = None THEN Raised("TypeError")
                  ELSE [kind |-> "priced",
                        num |-> BookCost(side, levels, amount),
                        den |-> amount]
             ELSE IF price = None THEN Raised("TypeError")
                  ELSE [kind |-> "priced", num |-> price[1] * PctDen, den |-> 1]
    ELSE IF price[1] > 0
         THEN [kind |-> "priced",
               num |-> price[1] * (IF side = "buy" THEN PctDen + slip ELSE PctDen - slip),
               den |-> 1]
         ELSE [kind |-> "priced", num |-> price[1] * PctDen, den |-> 1]

\* Price discovery (lines 104-152).  amount is in 1/AmtDen, price (optional) in
\* 1/PriceDen.  The result is "none" (rejected), "raise" (an exception leaves the
\* method) or "priced" with exec_price as the fraction num/(den*PctDen), in 1/PriceDen.
Discover(side, symbol, amount, price, order_book, slip) ==
    IF ~Truthy(price) /\ ~order_book.present
    THEN Rejected("Paper trade requires price or order book.")
    ELSE IF Len(symbol) # 2 THEN Raised("ValueError")
    ELSE IF order_book.present
    THEN LET levels == IF side = "buy" THEN order_book.asks ELSE order_book.bids
         IN  IF levels # <<>>
             THEN IF amount = 0 THEN Raised("ZeroDivisionError")
                  ELSE IF price = None THEN Raised("TypeError")
                  ELSE [kind |-> "priced",
                        num |-> BookCost(side, levels, amount),
                        den |-> amount]
             ELSE IF price = None THEN Raised("TypeError")
                  ELSE [kind |-> "priced", num |-> price[1] * PctDen, den |-> 1]
    ELSE IF price[1] > 0
         THEN [kind |-> "priced",
               num |-> price[1] * (IF side = "buy" THEN PctDen + slip ELSE PctDen - slip),
               den |-> 1]
         ELSE [kind |-> "priced", num |-> price[1] * PctDen, den |-> 1]

\* raw_cost = amount * exec_price (line 155), in 1/(AmtDen*PriceDen*PctDen)
raw_cost(amount, q) == (amount * q.num) \div q.den

\* total_cost = raw_cost * (1 + fee_pct/100) (line 159), in ledger units
total_cost(amount, q, fee) == raw_cost(amount, q) * (PctDen + fee)

\* Proceeds of a sale with the fee added to them
sell_proceeds_rebate(amount, q, fee) == raw_cost(amount, q) * (PctDen + fee)

\* sell_proceeds = raw_cost * (1 - fee_pct/100) (line 162), in ledger units
sell_proceeds(amount, q, fee) == raw_cost(amount, q) * (PctDen - fee)

\* An amount of the base asset in ledger units
Ledger(amount) == amount * (Unit \div AmtDen)

Fill(side, amount, q, cost) ==
    [kind |-> "fill", side |-> side, amount |-> amount,
     num |-> q.num, den |-> q.den, cost |-> cost]

\* The two wallet calls of a settlement (lines 164-182): withdraw(pay, out), and on
\* its success deposit(get, inn); cost is what the result reports
Legs(side, symbol, amount, q, fee) ==
    LET base == symbol[1]
        quote == symbol[2]
    IN  IF side = "buy"
        THEN [pay |-> quote, out |-> total_cost(amount, q, fee),
              get |-> base, inn |-> Ledger(amount),
              cost |-> total_cost(amount, q, fee)]
        ELSE [pay |-> base, out |-> Ledger(amount),
              get |-> quote, inn |-> sell_proceeds(amount, q, fee),
              cost |-> sell_proceeds(amount, q, fee)]

\* Settlement that does not look at what withdraw returns
SettleUnchecked(b, f, dsk, side, symbol, amount, q, fee) ==
    LET l == Legs(side, symbol, amount, q, fee)
        b1 == withdraw_balances(b, l.pay, l.out)
        f1 == withdraw_file(b, f, dsk, l.pay, l.out)
    IN  [res |-> Fill(side, amount, q, l.cost),
         bal |-> deposit_balances(b1, l.get, l.inn),
         file |-> deposit_file(b1, f1, dsk, l.get, l.inn)]

\* Settlement (lines 164-184) of a priced order on wallet (b, f)
Settle(b, f, dsk, side, symbol, amount, q, fee) ==
    LET l == Legs(side, symbol, amount, q, fee)
        b1 == withdraw_balances(b, l.pay, l.out)
        f1 == withdraw_file(b, f, dsk, l.pay, l.out)
    IN  IF side \notin {"buy", "sell"} THEN [res |-> NoResult, bal |-> b, file |-> f]
        ELSE IF withdraw_result(b, l.pay, l.out)
        THEN [res |-> Fill(side, amount, q, l.cost),
              bal |-> deposit_balances(b1, l.get, l.inn),
              file |-> deposit_file(b1, f1, dsk, l.get, l.inn)]
        ELSE [res |-> Rejected("PAPER: Insufficient"), bal |-> b, file |-> f]

\* _execute_paper_trade(side, symbol, amount, price, order_book) on wallet (b, f)
execute_paper_trade(b, f, dsk, side, symbol, amount, price, order_book, slip, fee) ==
    LET q == Discover(side, symbol, amount, price, order_book, slip)
    IN  IF q.kind = "priced"
        THEN Settle(b, f, dsk, side, symbol, amount, q, fee)
        ELSE [res |-> q, bal |-> b, file |-> f]

\* A signal argument: absent (None or {}), or a dict with 'side' and 'price'
NoSignal == [present |-> FALSE, side |-> "", price |-> None]
Signal(side, price) == [present |-> TRUE, side |-> side, price |-> price]

\* A number of whole coins (whole quote units) in the units of the model
Amt(n) == n * AmtDen
Px(price) == IF price = None THEN None ELSE Some(price[1] * PriceDen)

LiveMock == [kind |-> "live"]

\* execute_order whose rate limit also turns down a call made exactly
\* min_trade_interval after the last trade
execute_order_inclusive(w, signal, symbol, amount, order_book) ==
    LET same(log) == [res |-> Rejected(log), bal |-> w.bal, file |-> w.file, ltt |-> w.ltt]
    IN  IF ~signal.present THEN same("")
        ELSE IF signal.side \notin {"buy", "sell"} THEN same("Invalid signal side")
        ELSE IF w.now - w.ltt <= MIN_TRADE_INTERVAL
        THEN same("Trade skipped due to rate limiting.")
        ELSE IF w.paper
        THEN LET r == execute_paper_trade(w.bal, w.file, w.disk, signal.side, symbol,
                                          Amt(amount), Px(signal.price), order_book,
                                          w.slip, w.fee)
             IN  [res |-> r.res, bal |-> r.bal, file |-> r.file, ltt |-> w.ltt]
        ELSE [res |-> LiveMock, bal |-> w.bal, file |-> w.file, ltt |-> w.now]

\* execute_order that does not look at the side of the signal
execute_order_unvalidated(w, signal, symbol, amount, order_book) ==
    LET same(log) == [res |-> Rejected(log), bal |-> w.bal, file |-> w.file, ltt |-> w.ltt]
    IN  IF ~signal.present THEN same("")
        ELSE IF w.now - w.ltt < MIN_TRADE_INTERVAL
        THEN same("Trade skipped due to rate limiting.")
        ELSE IF w.paper
        THEN LET r == execute_paper_trade(w.bal, w.file, w.disk, signal.side, symbol,
                                          Amt(amount), Px(signal.price), order_book,
                                          w.slip, w.fee)
             IN  [res |-> r.res, bal |-> r.bal, file |-> r.file, ltt |-> w.ltt]
        ELSE [res |-> LiveMock, bal |-> w.bal, file |-> w.file, ltt |-> w.now]

\* execute_order(signal, symbol, amount, order_book): result, wallet and
\* last_trade_time after the call.  w is the engine's state before it.
execute_order(w, signal, symbol, amount, order_book) ==
    LET same(log) == [res |-> Rejected(log), bal |-> w.bal, file |-> w.file, ltt |-> w.ltt]
    IN  IF ~signal.present THEN same("")
        ELSE IF signal.side \notin {"buy", "sell"} THEN same("Invalid signal side")
        ELSE IF w.now - w.ltt < MIN_TRADE_INTERVAL
        THEN same("Trade skipped due to rate limiting.")
        ELSE IF w.paper
        THEN LET r == execute_paper_trade(w.bal, w.file, w.disk, signal.side, symbol,
                                          Amt(amount), Px(signal.price), order_book,
                                          w.slip, w.fee)
             IN  [res |-> r.res, bal |-> r.bal, file |-> r.file, ltt |-> w.ltt]
        ELSE [res |-> LiveMock, bal |-> w.bal, file |-> w.file, ltt |-> w.now]

\* A ladder whose last rung is 40% of the size
rungs_short == << [size_mult |-> 2, price_mult |-> 99],
                  [size_mult |-> 3, price_mult |-> 98],
                  [size_mult |-> 4, price_mult |-> 96] >>

\* The ladder configuration (lines 75-79): size_mult in 1/AmtDen, price_mult in 1/PriceDen
rungs == << [size_mult |-> 2, price_mult |-> 99],
            [size_mult |-> 3, price_mult |-> 98],
            [size_mult |-> 5, price_mult |-> 96] >>

\* The loop over the rungs (lines 82-96) from rung i on, in paper mode
RECURSIVE LadderFrom(_, _, _, _, _, _, _, _)
LadderFrom(i, b, f, w, symbol, total_amount, current_price, results) ==
    IF i > Len(rungs) THEN [res |-> results, raised |-> FALSE, bal |-> b, file |-> f]
    ELSE LET rung_amount == total_amount * rungs[i].size_mult
             rung_price == current_price * rungs[i].price_mult
             r == IF w.paper
                  THEN execute_paper_trade(b, f, w.disk, "buy", symbol, rung_amount,
                                           Some(rung_price), NoBook, w.slip, w.fee)
                  ELSE [res |-> LiveMock, bal |-> b, file |-> f]
         IN  IF r.res.kind = "raise"
             THEN [res |-> <<r.res>>, raised |-> TRUE, bal |-> r.bal, file |-> r.file]
             ELSE LadderFrom(i + 1, r.bal, r.file, w, symbol, total_amount, current_price,
                             IF r.res.kind = "none" THEN results
                             ELSE Append(results, r.res))

\* A ladder that sweeps the order book with the whole amount when it is given one
execute_ladder_order_swept(w, signal, symbol, total_amount, order_book) ==
    LET same(log) == [res |-> Rejected(log), bal |-> w.bal, file |-> w.file, ltt |-> w.ltt]
    IN  IF ~signal.present \/ total_amount = 0 THEN same("")
        ELSE IF ~Truthy(signal.price) THEN same("Ladder order requires current price.")
        ELSE IF order_book.present /\ w.paper
        THEN LET r == execute_paper_trade(w.bal, w.file, w.disk, "buy", symbol,
                                          Amt(total_amount), Px(signal.price), order_book,
                                          w.slip, w.fee)
             IN  [res |-> IF r.res.kind = "fill"
                          THEN [kind |-> "list", fills |-> <<r.res>>] ELSE r.res,
                  bal |-> r.bal, file |-> r.file, ltt |-> w.ltt]
        ELSE LET l == LadderFrom(1, w.bal, w.file, w, symbol, total_amount,
                                 signal.price[1], <<>>)
             IN  [res |-> IF l.raised THEN l.res[1]
                          ELSE IF l.res = <<>> THEN NoResult
                          ELSE [kind |-> "list", fills |-> l.res],
                  bal |-> l.bal, file |-> l.file, ltt |-> w.ltt]

\* A ladder that is rate limited as execute_order is
execute_ladder_order_limited(w, signal, symbol, total_amount, order_book) ==
    LET same(log) == [res |-> Rejected(log), bal |-> w.bal, file |-> w.file, ltt |-> w.ltt]
    IN  IF ~signal.present \/ total_amount = 0 THEN same("")
        ELSE IF ~Truthy(signal.price) THEN same("Ladder order requires current price.")
        ELSE IF w.now - w.ltt < MIN_TRADE_INTERVAL
        THEN same("Trade skipped due to rate limiting.")
        ELSE LET l == LadderFrom(1, w.bal, w.file, w, symbol, total_amount,
                                 signal.price[1], <<>>)
             IN  [res |-> IF l.raised THEN l.res[1]
                          ELSE IF l.res = <<>> THEN NoResult
                          ELSE [kind |-> "list", fills |-> l.res],
                  bal |-> l.bal, file |-> l.file, ltt |-> w.ltt]

\* execute_ladder_order(signal, symbol, total_amount, order_book): total_amount and
\* the signal's price in whole units.  The result is "none", "raise", or "list"
\* with the list of the rung results.
execute_ladder_order(w, signal, symbol, total_amount, order_book) ==
    LET same(log) == [res |-> Rejected(log), bal |-> w.bal, file |-> w.file, ltt |-> w.ltt]
    IN  IF ~signal.present \/ total_amount = 0 THEN same("")
        ELSE IF ~Truthy(signal.price) THEN same("Ladder order requires current price.")
        ELSE LET l == LadderFrom(1, w.bal, w.file, w, symbol, total_amount,
                                 signal.price[1], <<>>)
             IN  [res |-> IF l.raised THEN l.res[1]
                          ELSE IF l.res = <<>> THEN NoResult
                          ELSE [kind |-> "list", fills |-> l.res],
                  bal |-> l.bal, file |-> l.file, ltt |-> w.ltt]

-----------------------------------------------------------------------------
(* The inputs the calls are made with *)

EmptyDict == <<>>

Coins(n) == n * Unit

InitialCapitals == {Coins(0), Coins(10)}
InitialHoldings == {EmptyDict, [BTC |-> Coins(2)]}
WalletAmounts == {Coins(-1), Coins(0), Coins(1), Coins(3)}
Configs == {[fee |-> 0, slip |-> 0], [fee |-> 10, slip |-> 5]}

Symbols == {<<"BTC", "USD">>}
OrderAmounts == {-1, 0, 1, 3}
EmptyBook == Book(<<>>, <<>>)
TheBook == Book(<< <<2, 1>>, <<3, 1>> >>, << <<2, 1>>, <<1, 1>> >>)

DeepBook == Book(<< <<2, 1>>, <<3, 2>> >>, << <<3, 2>>, <<1, 1>> >>)

Order(signal, amount, order_book) ==
    [signal |-> signal, amount |-> amount, order_book |-> order_book]

\* The arguments of execute_order: no signal, a side that is no side, and for each
\* side the flat model (with and without a usable price), a book with an empty
\* side, and a book with levels (with and without a reference price)
OrderInputs ==
    {Order(NoSignal, 1, NoBook), Order(Signal("hold", Some(2)), 1, NoBook),
     Order(Signal("BUY", None), 3, TheBook)}
    \cup {Order(Signal(s, p), 1, NoBook) : s \in {"buy", "sell"}, p \in {None, Some(0)}}
    \cup {Order(Signal(s, p), a, NoBook) :
            s \in {"buy", "sell"}, p \in {Some(-2), Some(2)}, a \in OrderAmounts}
    \cup {Order(Signal(s, p), 1, EmptyBook) :
            s \in {"buy", "sell"}, p \in {None, Some(0), Some(2)}}
    \cup {Order(Signal(s, None), a, TheBook) : s \in {"buy", "sell"}, a \in {0, 1}}
    \cup {Order(Signal(s, Some(2)), a, TheBook) : s \in {"buy", "sell"}, a \in OrderAmounts}

\* The arguments of execute_ladder_order
LadderInputs ==
    {Order(NoSignal, 1, NoBook), Order(Signal("buy", None), 1, NoBook),
     Order(Signal("buy", Some(2)), 1, TheBook)}
    \cup {Order(Signal(s, Some(2)), a, NoBook) : s \in {"buy", "sell"}, a \in OrderAmounts}
    \cup {Order(Signal("buy", Some(-2)), a, NoBook) : a \in {-1, 1}}

\* The arguments of the orders priced by a book with levels: amounts below, at and
\* above the depth of the side
BookInputs ==
    {Order(Signal(s, Some(p)), a, b) :
        s \in {"buy", "sell"}, p \in {1, 2}, a \in 1..4, b \in {TheBook, DeepBook}}

DiskStates == {"ok", "denied", "full"}

Threads == {1, 2}
Idle == [pc |-> "idle"]

-----------------------------------------------------------------------------
(* The program, one call at a time (a single thread of control) *)

\* What a save() under disk condition dsk logs: nothing, or its failure
Saved(dsk) == IF dsk = "ok" THEN "ok" ELSE "Failed to save paper wallet"

\* What a caller holds of the ledger: nothing, the dict object of the wallet itself
\* (shared |-> TRUE), or a dict object of its own with its own items
NotHeld == [present |-> FALSE]
SharedDict == [present |-> TRUE, shared |-> TRUE]
OwnDict(items) == [present |-> TRUE, shared |-> FALSE, items |-> items]

\* PaperWallet.get_all_balances: `return self.balances`, the dict object itself
get_all_balances(b) == SharedDict

\* The items of a mapping handed out, as the caller reads them when the ledger is b
Items(h, b) == IF h.shared THEN b ELSE h.items

\* `del d[currency]` on a dict
DelItem(b, currency) == [a \in DOMAIN b \ {currency} |-> b[a]]

\* The statuses the broker gives an order, and those that end it
Waiting == {"Submitted", "Accepted"}
Terminal == {"Completed", "Canceled", "Rejected", "Margin"}

\* CouncilStrategy.__init__: self.order = None; the broker has no order and no
\* position, and no bar has been delivered.  `order` is self.order (None or the order
\* object, named by its side), `status` the status of the last order at the broker,
\* `outstanding` the number of orders the broker has not ended yet.
StrategyInit ==
    [order |-> None, status |-> "", position |-> FALSE, outstanding |-> 0, bar |-> 0,
     issued |-> FALSE]

\* notify_order(order): self.order after it
notify_order(order, status) ==
    IF status = "Completed" THEN None ELSE order

\* next() with the signal the council gave: the side of the order it places, if any
next_order(order, position, signal) ==
    IF order # None THEN None
    ELSE IF ~signal.present THEN None
    ELSE IF signal.side = "buy" /\ ~position THEN Some("buy")
    ELSE IF signal.side = "sell" /\ position THEN Some("sell")
    ELSE None

\* The engine state an executor method reads
Engine == [bal |-> balances, file |-> file, disk |-> disk, ltt |-> last_trade_time,
           now |-> now, paper |-> paper, fee |-> fee_pct, slip |-> slippage_pct]

Init ==
    \E cap \in InitialCapitals \ {Coins(0)}, hold \in InitialHoldings \ {EmptyDict},
       cfg \in Configs :
        /\ balances = load_balances(NoFile, "ok", cap, hold)
        /\ file = load_file(NoFile, "ok", cap, hold)
        /\ disk = "ok"
        /\ last_trade_time = 0
        /\ now = MIN_TRADE_INTERVAL
        /\ paper \in BOOLEAN
        /\ fee_pct = cfg.fee
        /\ slippage_pct = cfg.slip
        /\ calls = 0
        /\ call = [op |-> "init", res |-> NoResult]
        /\ th = [t \in Threads |-> Idle]
        /\ held = NotHeld
        /\ strat = StrategyInit
        /\ acct = [cap |-> cap, hold |-> hold,
                    start |-> load_balances(NoFile, "ok", cap, hold),
                    deposited |-> [a \in Assets |-> 0],
                    withdrawn |-> [a \in Assets |-> 0],
                    before |-> load_balances(NoFile, "ok", cap, hold),
                    after |-> load_balances(NoFile, "ok", cap, hold)]

\* The process is started again: PaperWallet(initial_capital, initial_holdings) and
\* OrderExecutor(...) are constructed anew over the file as it is
ConstructWith(initial_capital, initial_holdings) ==
    /\ calls < MaxCalls
    /\ balances' = load_balances(file, disk, initial_capital, initial_holdings)
    /\ file' = load_file(file, disk, initial_capital, initial_holdings)
    /\ call' = [op |-> "construct", res |-> NoResult,
                saved |-> IF LoadSucceeds(file, disk) THEN "" ELSE Saved(disk)]
    /\ last_trade_time' = 0
    /\ calls' = calls + 1
    /\ UNCHANGED <<disk, now, paper, fee_pct, slippage_pct, th, acct, held, strat>>

Construct ==
    \E cap \in InitialCapitals, hold \in InitialHoldings : ConstructWith(cap, hold)

\* wallet.deposit(currency, amount) that undoes the addition and raises when save() fails
DepositWithRollback(currency, amount) ==
    /\ calls < MaxCalls
    /\ balances' = IF Saved(disk) = "ok" THEN deposit_balances(balances, currency, amount)
                   ELSE balances
    /\ file' = deposit_file(balances, file, disk, currency, amount)
    /\ call' = [op |-> "deposit", currency |-> currency, amount |-> amount,
                res |-> IF amount >= 0 /\ Saved(disk) # "ok" THEN Raised("IOError")
                        ELSE NoResult,
                saved |-> IF amount < 0 THEN "" ELSE Saved(disk)]
    /\ calls' = calls + 1
    /\ UNCHANGED <<disk, last_trade_time, now, paper, fee_pct, slippage_pct, th, acct, held, strat>>

\* wallet.deposit(currency, amount)
DepositWith(currency, amount) ==
    /\ calls < MaxCalls
    /\ balances' = deposit_balances(balances, currency, amount)
    /\ file' = deposit_file(balances, file, disk, currency, amount)
    /\ call' = [op |-> "deposit", currency |-> currency, amount |-> amount,
                res |-> Rejected(IF amount < 0 THEN "Cannot deposit negative amount."
                                 ELSE "Deposited"),
                saved |-> IF amount < 0 THEN "" ELSE Saved(disk)]
    /\ calls' = calls + 1
    /\ UNCHANGED <<disk, last_trade_time, now, paper, fee_pct, slippage_pct, th, acct, held, strat>>

Deposit ==
    \E currency \in Assets, amount \in WalletAmounts : DepositWith(currency, amount)

\* wallet.withdraw(currency, amount)
WithdrawWith(currency, amount) ==
    /\ calls < MaxCalls
    /\ balances' = withdraw_balances(balances, currency, amount)
    /\ file' = withdraw_file(balances, file, disk, currency, amount)
    /\ call' = [op |-> "withdraw", currency |-> currency, amount |-> amount,
                res |-> [kind |-> "bool",
                         value |-> withdraw_result(balances, currency, amount)],
                saved |-> IF withdraw_result(balances, currency, amount)
                          THEN Saved(disk) ELSE ""]
    /\ calls' = calls + 1
    /\ UNCHANGED <<disk, last_trade_time, now, paper, fee_pct, slippage_pct, th, acct, held, strat>>

Withdraw ==
    \E currency \in Assets, amount \in WalletAmounts : WithdrawWith(currency, amount)

\* executor.execute_order(signal, symbol, amount, order_book), made when the clock
\* reads current_time
ExecuteOrderWith(signal, symbol, amount, order_book, current_time) ==
    /\ calls < MaxCalls
    /\ now' = current_time
    /\ LET r == execute_order([Engine EXCEPT !.now = current_time],
                              signal, symbol, amount, order_book)
       IN  /\ balances' = r.bal
           /\ file' = r.file
           /\ last_trade_time' = r.ltt
           /\ call' = [op |-> "order", signal |-> signal, symbol |-> symbol,
                        amount |-> amount, order_book |-> order_book, res |-> r.res]
    /\ calls' = calls + 1
    /\ UNCHANGED <<disk, paper, fee_pct, slippage_pct, th, acct, held, strat>>

ExecuteOrder ==
    \E o \in OrderInputs, symbol \in Symbols, current_time \in now..MaxTime :
        ExecuteOrderWith(o.signal, symbol, o.amount, o.order_book, current_time)

\* executor.execute_ladder_order(signal, symbol, total_amount, order_book)
ExecuteLadderOrderWith(signal, symbol, total_amount, order_book) ==
    /\ calls < MaxCalls
    /\ LET r == execute_ladder_order(Engine, signal, symbol, total_amount, order_book)
       IN  /\ balances' = r.bal
           /\ file' = r.file
           /\ last_trade_time' = r.ltt
           /\ call' = [op |-> "ladder", signal |-> signal, symbol |-> symbol,
                        amount |-> total_amount, order_book |-> order_book,
                        res |-> r.res]
    /\ calls' = calls + 1
    /\ UNCHANGED <<disk, now, paper, fee_pct, slippage_pct, th, acct, held, strat>>

ExecuteLadderOrder ==
    \E o \in LadderInputs, symbol \in Symbols :
        ExecuteLadderOrderWith(o.signal, symbol, o.amount, o.order_book)

\* The file system changes condition (environment)
DiskChange ==
    /\ \E d \in DiskStates \ {disk} : disk' = d
    /\ UNCHANGED <<balances, file, last_trade_time, now, paper, fee_pct, slippage_pct,
                   calls, call, th, acct, held, strat>>

Next ==
    \/ Construct
    \/ Deposit
    \/ Withdraw
    \/ ExecuteOrder
    \/ ExecuteLadderOrder

Spec == Init /\ [][Next]_vars

\* The wallet over a file system that fails
NextDisk ==
    \/ Construct
    \/ Deposit
    \/ Withdraw
    \/ DiskChange

SpecDisk == Init /\ [][NextDisk]_vars

-----------------------------------------------------------------------------
(* The wallet calls statement by statement: threads that share the wallet, and a   *)
(* process that is interrupted.  A call is the list of its settlements, each a     *)
(* withdraw(w) followed on success by a deposit(d); either leg may be absent.      *)

NoLeg == <<>>
Trade(w, d) == [w |-> w, d |-> d]

\* The settlements of _execute_paper_trade(side, symbol, amount, price, None)
PaperTrades(side, symbol, amount, price) ==
    LET q == Discover(side, symbol, amount, price, NoBook, slippage_pct)
        l == Legs(side, symbol, amount, q, fee_pct)
    IN  IF q.kind = "priced" THEN <<Trade(<<l.pay, l.out>>, <<l.get, l.inn>>)>> ELSE <<>>

\* The settlements of execute_ladder_order(signal, symbol, total_amount)
LadderTrades(symbol, total_amount, current_price) ==
    PaperTrades("buy", symbol, total_amount * rungs[1].size_mult,
                Some(current_price * rungs[1].price_mult))
    \o PaperTrades("buy", symbol, total_amount * rungs[2].size_mult,
                   Some(current_price * rungs[2].price_mult))
    \o PaperTrades("buy", symbol, total_amount * rungs[3].size_mult,
                   Some(current_price * rungs[3].price_mult))

\* The calls the threads make
ThreadCalls ==
    {<<Trade(NoLeg, <<"USD", Coins(n)>>)>> : n \in {-1, 1}}
    \cup {<<Trade(<<"USD", Coins(n)>>, NoLeg)>> : n \in {-1, 1, 10}}
    \cup {<<Trade(<<"ETH", Coins(1)>>, NoLeg)>>}
    \cup {PaperTrades("buy", <<"BTC", "USD">>, Amt(1), Px(Some(2))),
          PaperTrades("sell", <<"BTC", "USD">>, Amt(3), Px(Some(2)))}
    \cup {PaperTrades("buy", <<"BTC", "USD">>, Amt(-1), Px(Some(-2))),
          LadderTrades(<<"BTC", "USD">>, 1, 2)}

\* The thread at the start of the settlements still to do
Goto(todo) ==
    IF todo = <<>> THEN Idle
    ELSE [pc |-> IF todo[1].w # NoLeg THEN "w_check" ELSE "d_check",
          todo |-> todo, cur |-> 0]

\* After the save() that ends a wallet call
AfterSave(t) ==
    IF th[t].pc = "w_dump" /\ th[t].todo[1].d # NoLeg
    THEN [th[t] EXCEPT !.pc = "d_check"]
    ELSE Goto(Tail(th[t].todo))

\* The engine trades on paper and charges a fee
InitSteps == Init /\ paper = TRUE /\ fee_pct > 0

\* A thread enters a call
Begin(t) ==
    /\ th[t].pc = "idle"
    /\ calls < MaxCalls
    /\ \E c \in ThreadCalls \ {<<>>} : th' = [th EXCEPT ![t] = Goto(c)]
    /\ calls' = calls + 1
    /\ call' = [op |-> "begin", res |-> NoResult]
    /\ UNCHANGED <<balances, file, disk, last_trade_time, now, paper, fee_pct, slippage_pct,
                   acct, held, strat>>

\* withdraw, lines 64-69: the amount and balance checks
WCheck(t) ==
    /\ th[t].pc = "w_check"
    /\ LET currency == th[t].todo[1].w[1]
           amount == th[t].todo[1].w[2]
       IN  /\ th' = [th EXCEPT ![t] =
                        IF withdraw_result(balances, currency, amount)
                        THEN [@ EXCEPT !.pc = "w_write",
                                       !.cur = get_balance(balances, currency)]
                        ELSE Goto(Tail(@.todo))]
           /\ acct' = [acct EXCEPT !.before = balances,
                                   !.after = withdraw_balances(balances, currency, amount)]
    /\ UNCHANGED <<balances, file, disk, last_trade_time, now, paper, fee_pct, slippage_pct,
                   calls, call, held, strat>>

\* withdraw, line 70: self.balances[currency] = current - amount
WWrite(t) ==
    /\ th[t].pc = "w_write"
    /\ LET currency == th[t].todo[1].w[1]
           amount == th[t].todo[1].w[2]
       IN  /\ balances' = SetItem(balances, currency, th[t].cur - amount)
           /\ acct' = [acct EXCEPT !.withdrawn[currency] = @ + amount]
    /\ th' = [th EXCEPT ![t].pc = "w_open"]
    /\ UNCHANGED <<file, disk, last_trade_time, now, paper, fee_pct, slippage_pct,
                   calls, call, held, strat>>

\* deposit, lines 53-57: the amount check and the read of the balance
DCheck(t) ==
    /\ th[t].pc = "d_check"
    /\ LET currency == th[t].todo[1].d[1]
           amount == th[t].todo[1].d[2]
       IN  /\ th' = [th EXCEPT ![t] =
                        IF amount < 0 THEN Goto(Tail(@.todo))
                        ELSE [@ EXCEPT !.pc = "d_write",
                                       !.cur = get_balance(balances, currency)]]
           /\ acct' = [acct EXCEPT !.before = balances,
                                   !.after = deposit_balances(balances, currency, amount)]
    /\ UNCHANGED <<balances, file, disk, last_trade_time, now, paper, fee_pct, slippage_pct,
                   calls, call, held, strat>>

\* deposit, line 58: self.balances[currency] = current + amount
DWrite(t) ==
    /\ th[t].pc = "d_write"
    /\ LET currency == th[t].todo[1].d[1]
           amount == th[t].todo[1].d[2]
       IN  /\ balances' = SetItem(balances, currency, th[t].cur + amount)
           /\ acct' = [acct EXCEPT !.deposited[currency] = @ + amount]
    /\ th' = [th EXCEPT ![t].pc = "d_open"]
    /\ UNCHANGED <<file, disk, last_trade_time, now, paper, fee_pct, slippage_pct,
                   calls, call, held, strat>>

\* save, line 42: open(self.filename, 'w') leaves the file empty
SaveOpen(t) ==
    /\ th[t].pc \in {"w_open", "d_open"}
    /\ file' = Corrupt
    /\ th' = [th EXCEPT ![t].pc = IF @ = "w_open" THEN "w_dump" ELSE "d_dump"]
    /\ UNCHANGED <<balances, disk, last_trade_time, now, paper, fee_pct, slippage_pct,
                   calls, call, acct, held, strat>>

\* save, line 43: json.dump(self.balances, f), and the return of the wallet call
SaveDump(t) ==
    /\ th[t].pc \in {"w_dump", "d_dump"}
    /\ file' = Dump(balances)
    /\ th' = [th EXCEPT ![t] = AfterSave(t)]
    /\ acct' = [acct EXCEPT !.before = balances, !.after = balances]
    /\ UNCHANGED <<balances, disk, last_trade_time, now, paper, fee_pct, slippage_pct,
                   calls, call, held, strat>>

\* The process is killed wherever it is and started again with the same arguments
CrashRestart ==
    /\ call.op # "restart"
    /\ balances' = load_balances(file, disk, acct.cap, acct.hold)
    /\ file' = load_file(file, disk, acct.cap, acct.hold)
    /\ th' = [t \in Threads |-> Idle]
    /\ last_trade_time' = 0
    /\ call' = [op |-> "restart", res |-> NoResult]
    /\ UNCHANGED <<disk, now, paper, fee_pct, slippage_pct, calls, acct, held, strat>>

Step(t) ==
    \/ Begin(t)
    \/ WCheck(t)
    \/ WWrite(t)
    \/ DCheck(t)
    \/ DWrite(t)
    \/ SaveOpen(t)
    \/ SaveDump(t)

\* Two threads make calls on one wallet
NextThreads == \E t \in Threads : Step(t)

SpecThreads == InitSteps /\ [][NextThreads]_vars

\* One thread of control, interrupted and restarted
NextCrash ==
    \/ Step(1)
    \/ CrashRestart

SpecCrash == InitSteps /\ [][NextCrash]_vars

-----------------------------------------------------------------------------
(* Orders priced by the order book, on paper *)

InitBook == Init /\ paper = TRUE

\* executor.execute_order with an order book that has levels
BookOrder ==
    \E o \in BookInputs, symbol \in Symbols :
        ExecuteOrderWith(o.signal, symbol, o.amount, o.order_book, now)

NextBook == BookOrder \/ Deposit

SpecBook == InitBook /\ [][NextBook]_vars

-----------------------------------------------------------------------------
(* Ladder orders, after a withdrawal or an order that leaves funds for some rungs *)

\* executor.execute_order of a flat buy of 3 coins at 2
LadderPrelude ==
    \E symbol \in Symbols, current_time \in now..MaxTime :
        ExecuteOrderWith(Signal("buy", Some(2)), symbol, 3, NoBook, current_time)

NextLadder == ExecuteLadderOrder \/ LadderPrelude \/ Withdraw

SpecLadder == Init /\ [][NextLadder]_vars

-----------------------------------------------------------------------------
(* A caller that asks for all balances, and writes to the mapping it was handed *)

HeldValues == {Coins(0), Coins(5)}

\* wallet.get_all_balances()
GetAllBalances ==
    /\ calls < MaxCalls
    /\ held' = get_all_balances(balances)
    /\ calls' = calls + 1
    /\ call' = [op |-> "get_all_balances", res |-> NoResult]
    /\ UNCHANGED <<balances, file, disk, last_trade_time, now, paper, fee_pct, slippage_pct,
                   th, acct, strat>>

\* The caller runs `d[currency] = v` on the mapping d it holds: the write lands in the
\* dict object d names, which is the ledger when d is shared
CallerSetItem ==
    /\ calls < MaxCalls
    /\ held.present
    /\ \E currency \in Assets, v \in HeldValues :
        /\ IF held.shared
           THEN balances' = SetItem(balances, currency, v) /\ held' = held
           ELSE balances' = balances /\ held' = OwnDict(SetItem(held.items, currency, v))
        /\ call' = [op |-> "setitem", currency |-> currency, amount |-> v, res |-> NoResult]
    /\ calls' = calls + 1
    /\ UNCHANGED <<file, disk, last_trade_time, now, paper, fee_pct, slippage_pct, th, acct, strat>>

\* The caller runs `del d[currency]` on the mapping d it holds
CallerDelItem ==
    /\ calls < MaxCalls
    /\ held.present
    /\ \E currency \in DOMAIN Items(held, balances) :
        /\ IF held.shared
           THEN balances' = DelItem(balances, currency) /\ held' = held
           ELSE balances' = balances /\ held' = OwnDict(DelItem(held.items, currency))
        /\ call' = [op |-> "delitem", currency |-> currency, res |-> NoResult]
    /\ calls' = calls + 1
    /\ UNCHANGED <<file, disk, last_trade_time, now, paper, fee_pct, slippage_pct, th, acct, strat>>

NextCaller == GetAllBalances \/ CallerSetItem \/ CallerDelItem \/ Deposit \/ Withdraw

SpecCaller == Init /\ [][NextCaller]_vars

-----------------------------------------------------------------------------
(* The price-impact estimator of src/data/exchange_client.py *)

Abs(n) == IF n < 0 THEN -n ELSE n

\* The exchange does not answer: exchange.fetch_order_book raises
Down == [present |-> FALSE, asks |-> <<>>, bids |-> <<>>, down |-> TRUE]

\* ExchangeClient.fetch_order_book: the book of the exchange, or on any exception
\* {'bids': [], 'asks': []}
fetch_order_book(exchange) == IF exchange = Down THEN EmptyBook ELSE exchange

\* The loop of get_price_impact over the levels from level i on, in whole units
RECURSIVE ImpactWalk(_, _, _, _)
ImpactWalk(levels, i, cost, remaining_amount) ==
    IF i > Len(levels) THEN [total_cost |-> cost, remaining_amount |-> remaining_amount]
    ELSE LET fill == Min(remaining_amount, levels[i][2])
             total == cost + fill * levels[i][1]
             remaining == remaining_amount - fill
         IN  IF remaining <= 0
             THEN [total_cost |-> total, remaining_amount |-> remaining]
             ELSE ImpactWalk(levels, i + 1, total, remaining)

\* A value returned by get_price_impact: the fraction num/den
Impact(num, den) == [kind |-> "impact", num |-> num, den |-> den]

\* get_price_impact that fetches the book before it looks at the amount
get_price_impact_eager(exchange, amount, side) ==
    LET order_book == fetch_order_book(exchange)
        levels == IF side = "buy" THEN order_book.asks ELSE order_book.bids
    IN  IF levels = <<>> THEN [res |-> Impact(1, 1), fetched |-> TRUE]
        ELSE [res |-> Impact(0, 1), fetched |-> TRUE]

\* ExchangeClient.get_price_impact(symbol, amount, side): what it returns, and whether
\* it fetched the order book
get_price_impact(exchange, amount, side) ==
    IF amount <= 0 THEN [res |-> Impact(0, 1), fetched |-> FALSE]
    ELSE LET order_book == fetch_order_book(exchange)
             levels == IF side = "buy" THEN order_book.asks ELSE order_book.bids
             base_price == levels[1][1]
             w == ImpactWalk(levels, 1, 0, amount)
             filled == amount - w.remaining_amount
         IN  [fetched |-> TRUE,
              res |-> IF levels = <<>> THEN Impact(1, 1)
                      ELSE IF w.remaining_amount > 0
                      THEN IF filled = 0 \/ base_price = 0 THEN Raised("ZeroDivisionError")
                           ELSE Impact(Abs(w.total_cost * (amount + w.remaining_amount)
                                             - base_price * filled * amount),
                                       base_price * filled * amount)
                      ELSE IF base_price = 0 THEN Raised("ZeroDivisionError")
                      ELSE Impact(Abs(w.total_cost - base_price * amount),
                                  base_price * amount)]

\* The state of the exchange's book when the estimator asks for it
Exchanges ==
    {Down, EmptyBook, TheBook, DeepBook, Book(<< <<2, 1>> >>, <<>>),
     Book(<<>>, << <<2, 0>> >>)}

ImpactAmounts == {-1, 0, 1, 2, 4}

\* client.get_price_impact(symbol, amount, side)
GetPriceImpact ==
    /\ calls < MaxCalls
    /\ \E exchange \in Exchanges, amount \in ImpactAmounts, side \in {"buy", "sell"} :
        LET r == get_price_impact(exchange, amount, side)
        IN  call' = [op |-> "impact", exchange |-> exchange, amount |-> amount,
                     side |-> side, fetched |-> r.fetched, res |-> r.res]
    /\ calls' = calls + 1
    /\ UNCHANGED <<balances, file, disk, last_trade_time, now, paper, fee_pct, slippage_pct,
                   th, acct, held, strat>>

NextImpact == GetPriceImpact \/ Deposit

SpecImpact == Init /\ [][NextImpact]_vars

-----------------------------------------------------------------------------
(* Orders and ladders on symbols of every shape *)

\* What symbol.split('/') gives: a symbol with no '/', with one, and with two
AnySymbols == {<<"BTCUSD">>, <<"BTC", "USD">>, <<"BTC", "USD", "T">>}

SymbolInputs ==
    {Order(Signal(s, p), 1, b) : s \in {"buy", "sell"}, p \in {None, Some(2)},
                                 b \in {NoBook, TheBook}}

\* executor.execute_order(signal, symbol, 1, order_book)
SymbolOrder ==
    \E o \in SymbolInputs, symbol \in AnySymbols, current_time \in now..MaxTime :
        ExecuteOrderWith(o.signal, symbol, o.amount, o.order_book, current_time)

\* executor.execute_ladder_order(signal, symbol, 1, order_book)
SymbolLadder ==
    \E o \in SymbolInputs, symbol \in AnySymbols :
        ExecuteLadderOrderWith(o.signal, symbol, o.amount, o.order_book)

NextSymbol == SymbolOrder \/ SymbolLadder

SpecSymbol == Init /\ [][NextSymbol]_vars

-----------------------------------------------------------------------------
(* The backtest: cerebro delivers the bars to CouncilStrategy.next and the broker's
   order notifications to CouncilStrategy.notify_order *)

CouncilSignals == {NoSignal, Signal("buy", None), Signal("sell", None), Signal("hold", None)}

\* The statuses the broker can give next to an order it has not ended
NextStatuses(status) ==
    IF status = "Submitted" THEN {"Accepted", "Margin", "Rejected"}
    ELSE {"Completed", "Canceled", "Margin"}

\* cerebro delivers a bar: next()
StrategyNext ==
    /\ strat.bar < MaxBars
    /\ \E signal \in CouncilSignals :
        LET placed == next_order(strat.order, strat.position, signal)
        IN  strat' = IF placed = None
                     THEN [strat EXCEPT !.bar = @ + 1, !.issued = FALSE]
                     ELSE [strat EXCEPT !.bar = @ + 1, !.issued = TRUE,
                                        !.order = placed, !.status = "Submitted",
                                        !.outstanding = @ + 1]
    /\ UNCHANGED <<balances, file, disk, last_trade_time, now, paper, fee_pct, slippage_pct,
                   calls, call, th, acct, held>>

\* The broker moves the order to its next status, fills the position when the order
\* completes, and notifies the strategy: notify_order(order)
NotifyOrder ==
    /\ strat.status \in Waiting
    /\ \E status \in NextStatuses(strat.status) :
        strat' = [strat EXCEPT
                    !.status = status,
                    !.issued = FALSE,
                    !.outstanding = IF status \in Terminal THEN @ - 1 ELSE @,
                    !.position = IF status = "Completed" THEN strat.order = Some("buy")
                                 ELSE @,
                    !.order = notify_order(strat.order, status)]
    /\ UNCHANGED <<balances, file, disk, last_trade_time, now, paper, fee_pct, slippage_pct,
                   calls, call, th, acct, held>>

NextBacktest == StrategyNext \/ NotifyOrder

\* cerebro runs the data to its end and delivers every notification of the broker
SpecBacktest ==
    Init /\ [][NextBacktest]_vars /\ WF_vars(StrategyNext) /\ WF_vars(NotifyOrder)

-----------------------------------------------------------------------------
(* The claims *)

\* The two ledgers give every asset the same balance
SameLedger(x, y) == \A a \in Assets : get_balance(x, a) = get_balance(y, a)

\* The step is a call of execute_order that returned a fill of the given side
Filled(side) ==
    /\ calls' = calls + 1
    /\ call'.op = "order"
    /\ paper
    /\ call'.res.kind = "fill"
    /\ call'.res.side = side

\* C1: every balance of the ledger is >= 0 in every state, the states between the
\* statements of deposit, withdraw, execute_order and execute_ladder_order included,
\* whatever the amounts asked for (negative, over the balance) and even when two
\* threads run their calls interleaved.
C1_BalancesNeverNegative == \A a \in DOMAIN balances : balances[a] >= 0

\* An asset was withdrawn down to zero and a call is in the middle of its save
C1_Witness ==
    /\ acct.withdrawn["USD"] > 0
    /\ get_balance(balances, "USD") = 0
    /\ \E t \in Threads : th[t].pc \in {"w_open", "w_dump"}

\* C2: after execute_order has settled a paper trade at time t, last_trade_time = t
\* (so that a further call before t + min_trade_interval is rejected).
C2_FillStampsLastTradeTime ==
    (call.op = "order" /\ paper /\ call.res.kind = "fill") => last_trade_time = now

\* C3: every successful paper buy takes exactly the reported cost from the quote
\* balance, adds exactly the amount to the base balance, and changes no other asset.
C3_BuyMovesCostAndAmount ==
    [][Filled("buy") =>
        /\ get_balance(balances', "USD") + call'.res.cost = get_balance(balances, "USD")
        /\ get_balance(balances', "BTC")
             = get_balance(balances, "BTC") + Ledger(call'.res.amount)
        /\ get_balance(balances', "ETH") = get_balance(balances, "ETH")]_vars

\* C4: every successful paper sell takes exactly the amount from the base balance,
\* adds exactly the reported cost (the proceeds) to the quote balance, and changes no
\* other asset.
C4_SellMovesAmountAndProceeds ==
    [][Filled("sell") =>
        /\ get_balance(balances', "BTC") + Ledger(call'.res.amount)
             = get_balance(balances, "BTC")
        /\ get_balance(balances', "USD")
             = get_balance(balances, "USD") + call'.res.cost
        /\ get_balance(balances', "ETH") = get_balance(balances, "ETH")]_vars

\* C5: a paper buy whose total cost (fee included) is more than the quote balance,
\* and a paper sell of more than the base balance, return None and leave the ledger
\* and the file as they were.
C5_InsufficientFundsChangeNothing ==
    [][(calls' = calls + 1 /\ call'.op = "order" /\ paper /\ call'.signal # NoSignal) =>
        LET side == call'.signal.side
            q == Discover(side, call'.symbol, Amt(call'.amount), Px(call'.signal.price),
                          call'.order_book, slippage_pct)
            l == Legs(side, call'.symbol, Amt(call'.amount), q, fee_pct)
        IN  ( /\ side \in {"buy", "sell"}
              /\ q.kind = "priced"
              /\ l.out > get_balance(balances, l.pay) )
            => ( /\ call'.res.kind = "none"
                 /\ balances' = balances
                 /\ file' = file )]_vars

\* An order was turned down for want of funds
C5_Witness ==
    /\ call.op = "order"
    /\ call.res.kind = "none"
    /\ call.res.log = "PAPER: Insufficient"

\* C6: with two calls running at once on one wallet, what has been withdrawn from an
\* asset is never more than what it started with plus what was deposited to it (no two
\* withdrawals pass their check against the same balance).
C6_NeverWithdrawnMoreThanThere ==
    \A a \in Assets :
        acct.withdrawn[a] <= get_balance(acct.start, a) + acct.deposited[a]

\* C7: when the wallet file exists at construction, the wallet holds the persisted
\* balances whatever initial_capital and initial_holdings are, and construction does
\* not write the file.
C7_ConstructionKeepsPersistedState ==
    [][(calls' = calls + 1 /\ call'.op = "construct" /\ file.kind # "none") =>
        /\ file' = file
        /\ file.kind = "json" => balances' = Load(file)]_vars

\* C8: the wallet built after an interruption holds the ledger as it was just before
\* or just after the one deposit or withdraw that was in flight.
C8_RestartLosesAtMostTheCallInFlight ==
    call.op = "restart" =>
        SameLedger(balances, acct.before) \/ SameLedger(balances, acct.after)

\* C9: after a deposit or withdraw that changed the ledger and whose save() did not
\* fail, loading the file gives the ledger in memory.
C9_SavedStateIsTheLedger ==
    (call.op \in {"deposit", "withdraw"} /\ call.saved = "ok") =>
        file.kind = "json" /\ Load(file) = balances

\* A withdrawal was saved
C9_Witness ==
    /\ call.op = "withdraw"
    /\ call.amount > 0
    /\ call.saved = "ok"

\* C10: withdraw(currency, amount) with amount >= 0 returns True exactly when the
\* balance is >= amount; then the balance of currency is amount less and no other
\* balance changes; when it returns False the ledger and the file are as they were.
C10_WithdrawContract ==
    [][\A currency \in Assets, amount \in WalletAmounts :
        (WithdrawWith(currency, amount) /\ amount >= 0) =>
            /\ call'.res.value <=> get_balance(balances, currency) >= amount
            /\ call'.res.value =>
                /\ get_balance(balances', currency)
                     = get_balance(balances, currency) - amount
                /\ \A other \in Assets \ {currency} :
                     get_balance(balances', other) = get_balance(balances, other)
            /\ ~call'.res.value => balances' = balances /\ file' = file]_vars

\* A withdrawal of the whole balance succeeded
C10_Witness ==
    /\ call.op = "withdraw"
    /\ call.amount > 0
    /\ call.res.value
    /\ get_balance(balances, call.currency) = 0

\* The step is a call of execute_order with a signal
Ordered ==
    /\ calls' = calls + 1
    /\ call'.op = "order"
    /\ call'.signal.present

\* The call was turned down with this line in the log
TurnedDown(c, log) == c.res.kind = "none" /\ c.res.log = log

\* C11: a call of execute_order with side buy or sell made while
\* now - last_trade_time < min_trade_interval returns None and leaves the balances,
\* the file and last_trade_time as they were; a call made when
\* now - last_trade_time >= min_trade_interval is not turned down by the rate limit.
C11_RateLimit ==
    [][(Ordered /\ call'.signal.side \in {"buy", "sell"}) =>
        IF now' - last_trade_time < MIN_TRADE_INTERVAL
        THEN /\ call'.res.kind = "none"
             /\ balances' = balances
             /\ file' = file
             /\ last_trade_time' = last_trade_time
        ELSE ~TurnedDown(call', "Trade skipped due to rate limiting.")]_vars

\* A call was turned down by the rate limit, after a trade
C11_Witness ==
    /\ call.op = "order"
    /\ TurnedDown(call, "Trade skipped due to rate limiting.")
    /\ last_trade_time > 0
    /\ now - last_trade_time < MIN_TRADE_INTERVAL

\* C12: a call of execute_order whose side is neither "buy" nor "sell" returns None
\* and leaves balances, file and last_trade_time as they were, whatever the clock,
\* the amount, the price and the order book.
C12_InvalidSideRejected ==
    [][(Ordered /\ call'.signal.side \notin {"buy", "sell"}) =>
        /\ call'.res.kind = "none"
        /\ balances' = balances
        /\ file' = file
        /\ last_trade_time' = last_trade_time]_vars

\* A call with a side in capitals was turned down, an order book and no price given
C12_Witness ==
    /\ call.op = "order"
    /\ call.signal.side = "BUY"
    /\ call.order_book.present
    /\ TurnedDown(call, "Invalid signal side")

\* The step is a call of execute_order on paper that got past the validation of the
\* signal and the rate limit
Traded ==
    /\ Ordered
    /\ paper
    /\ call'.signal.side \in {"buy", "sell"}
    /\ now' - last_trade_time >= MIN_TRADE_INTERVAL

\* The side of the order book the call walks
Levels(c) == IF c.signal.side = "buy" THEN c.order_book.asks ELSE c.order_book.bids

\* C13: with an order book whose relevant side (asks for a buy, bids for a sell) has
\* no levels, execute_order returns None and changes no balance (here for the calls
\* that give a reference price).
C13_EmptySideIsNoLiquidity ==
    [][(Traded /\ call'.order_book.present /\ Levels(call') = <<>>
               /\ Truthy(call'.signal.price)) =>
        /\ call'.res.kind = "none"
        /\ balances' = balances]_vars

\* C14: a signal with no price and a book with levels on the relevant side is priced
\* by the book and settles, or is turned down for want of funds only; a signal with
\* neither price nor book returns None and changes nothing.
C14_PriceOnlyNeededWithoutBook ==
    [][(Traded /\ call'.signal.price = None /\ call'.amount > 0) =>
        IF call'.order_book.present
        THEN Levels(call') # <<>> =>
                \/ call'.res.kind = "fill"
                \/ TurnedDown(call', "PAPER: Insufficient")
        ELSE /\ call'.res.kind = "none"
             /\ balances' = balances
             /\ file' = file]_vars

\* C17: one pricing model per execution: with no order book the executed price is
\* reference_price * (1 + slippage_pct/100) for a buy and
\* reference_price * (1 - slippage_pct/100) for a sell; with an order book it is the
\* price of the book walk, whatever slippage_pct and the reference price are.
C17_OnePricingModel ==
    [][(Traded /\ call'.res.kind = "fill") =>
        IF call'.order_book.present
        THEN /\ Levels(call') # <<>>
             /\ call'.res.num = BookCost(call'.signal.side, Levels(call'), Amt(call'.amount))
             /\ call'.res.den = Amt(call'.amount)
        ELSE /\ call'.res.num = Px(call'.signal.price)[1]
                    * (IF call'.signal.side = "buy" THEN PctDen + slippage_pct
                       ELSE PctDen - slippage_pct)
             /\ call'.res.den = 1]_vars

\* amount * exec_price of the fill the call returned, in ledger units over PctDen
RawCost(c) == (Amt(c.amount) * c.res.num) \div c.res.den

\* C18: for every fill the quote asset moves by amount * exec_price * (1 + fee_pct/100),
\* withdrawn, for a buy and by amount * exec_price * (1 - fee_pct/100), deposited, for
\* a sell; with fee_pct >= 0 a buy pays no less and a sell gets no more than
\* amount * exec_price.
C18_FeeOnTheQuoteLeg ==
    [][(Traded /\ call'.res.kind = "fill") =>
        LET paid == get_balance(balances, call'.symbol[2])
                      - get_balance(balances', call'.symbol[2])
        IN  IF call'.signal.side = "buy"
            THEN /\ paid = RawCost(call') * (PctDen + fee_pct)
                 /\ paid >= RawCost(call') * PctDen
            ELSE /\ -paid = RawCost(call') * (PctDen - fee_pct)
                 /\ -paid <= RawCost(call') * PctDen]_vars

\* C19: the list execute_ladder_order returns has one position per rung, empty where
\* the rung failed, so that it shows which rungs filled.
C19_LadderResultHasAPositionPerRung ==
    [][(calls' = calls + 1 /\ call'.op = "ladder" /\ call'.res.kind = "list") =>
        Len(call'.res.fills) = Len(rungs)]_vars

\* The volume of a side of the book, in whole coins
RECURSIVE Depth(_)
Depth(levels) == IF levels = <<>> THEN 0 ELSE levels[1][2] + Depth(Tail(levels))

\* The sum over the levels consumed, in book order, of min(remaining, volume) * price
RECURSIVE ConsumedCost(_, _)
ConsumedCost(levels, remaining) ==
    IF levels = <<>> THEN 0
    ELSE LET taken == Min(remaining, levels[1][2])
         IN  taken * levels[1][1]
               + (IF remaining - taken <= 0 THEN 0
                  ELSE ConsumedCost(Tail(levels), remaining - taken))

\* The step is a call of execute_order on paper with a book that has levels on the
\* side it walks
BookTraded == Traded /\ call'.order_book.present /\ Levels(call') # <<>>

\* C15: when the amount is not more than the volume of the relevant side (asks for a
\* buy, bids for a sell), the executed price is the volume-weighted average of the
\* levels consumed in book order:
\* (sum of min(remaining, volume) * price) / amount.
C15_BookWalkIsVolumeWeightedAverage ==
    [][(BookTraded /\ call'.res.kind = "fill" /\ call'.amount <= Depth(Levels(call'))) =>
        call'.res.num * call'.amount
          = ConsumedCost(Levels(call'), call'.amount) * call'.res.den * PctDen * PriceDen]_vars

\* A buy was filled that consumed the first level of the asks and part of the second
C15_Witness ==
    /\ call.op = "order"
    /\ call.res.kind = "fill"
    /\ call.signal.side = "buy"
    /\ call.order_book = DeepBook
    /\ call.amount = 2

\* C16: when the amount is more than the volume of the relevant side the order is
\* not turned down for it: the remainder is priced at the last level's price times
\* 1.05 for a buy and 0.95 for a sell, exec_price is the whole cost over the whole
\* amount, and the whole amount is settled in the wallet.
C16_DepthExhaustedFillsAtPenalty ==
    [][(BookTraded /\ call'.amount > Depth(Levels(call'))) =>
        LET levels == Levels(call')
            rest == call'.amount - Depth(levels)
            pct == IF call'.signal.side = "buy" THEN 105 ELSE 95
            base == call'.symbol[1]
            moved == get_balance(balances', base) - get_balance(balances, base)
        IN  /\ call'.res.kind = "fill" \/ TurnedDown(call', "PAPER: Insufficient")
            /\ call'.res.kind = "fill" =>
                /\ call'.res.num * 100 * call'.amount
                     = (100 * ConsumedCost(levels, Depth(levels))
                          + rest * levels[Len(levels)][1] * pct)
                       * call'.res.den * PctDen * PriceDen
                /\ moved = IF call'.signal.side = "buy" THEN Ledger(Amt(call'.amount))
                           ELSE -Ledger(Amt(call'.amount))]_vars

\* A sell of more than the bids hold was filled
C16_Witness ==
    /\ call.op = "order"
    /\ call.res.kind = "fill"
    /\ call.signal.side = "sell"
    /\ call.order_book.present
    /\ call.amount > Depth(call.order_book.bids)

\* The plan of the ladder: tenths of the total amount, hundredths of the price
Plan == << <<2, 99>>, <<3, 98>>, <<5, 96>> >>

\* The fill is the buy of rung i of the ladder over total amount T at price P
IsRung(fill, i, T, P) ==
    /\ fill.side = "buy"
    /\ fill.amount = T * Plan[i][1]
    /\ fill.num = P * Plan[i][2] * (PctDen + slippage_pct)
    /\ fill.den = 1

\* C20: for T > 0 and P > 0 execute_ladder_order tries three buys, in this order, of
\* 0.2*T, 0.3*T and 0.5*T at the prices 0.99*P, 0.98*P and 0.96*P (the fills it
\* returns are these buys, in this order); the amounts add up to T, so that when the
\* three rungs fill the base balance is T more.
C20_LadderPlan ==
    [][( /\ calls' = calls + 1
         /\ call'.op = "ladder"
         /\ paper
         /\ call'.signal.present
         /\ call'.amount > 0
         /\ Truthy(call'.signal.price)
         /\ call'.signal.price[1] > 0
         /\ call'.res.kind = "list" ) =>
        LET fills == call'.res.fills
            T == call'.amount
            P == call'.signal.price[1]
            base == call'.symbol[1]
        IN  /\ Len(fills) <= 3
            /\ \A k \in 1..Len(fills) : \E i \in k..3 : IsRung(fills[k], i, T, P)
            /\ \A k \in 1..(Len(fills) - 1) : fills[k].amount < fills[k + 1].amount
            /\ Len(fills) = 3 =>
                 get_balance(balances', base) = get_balance(balances, base) + Ledger(Amt(T))
            /\ get_balance(balances', base) - get_balance(balances, base)
                 = (IF Len(fills) >= 1 THEN Ledger(fills[1].amount) ELSE 0)
                   + (IF Len(fills) >= 2 THEN Ledger(fills[2].amount) ELSE 0)
                   + (IF Len(fills) >= 3 THEN Ledger(fills[3].amount) ELSE 0)]_vars

\* The three rungs of a ladder over 3 coins filled
C20_Witness ==
    /\ call.op = "ladder"
    /\ paper
    /\ call.amount = 3
    /\ call.res.kind = "list"
    /\ Len(call.res.fills) = 3

\* The step is a call of execute_ladder_order that got to its rungs
Laddered ==
    /\ calls' = calls + 1
    /\ call'.op = "ladder"
    /\ call'.signal.present
    /\ call'.amount # 0
    /\ Truthy(call'.signal.price)

\* The results that are not None, in order
Kept(results) == SelectSeq(results, LAMBDA r : r.kind # "none")

\* A buy on its own, by the flat model, of rung i of the ladder of call c on the
\* wallet (b, f)
RungAlone(c, i, b, f) ==
    execute_paper_trade(b, f, disk, "buy", c.symbol, c.amount * Plan[i][1],
                        Some(c.signal.price[1] * Plan[i][2]), NoBook,
                        slippage_pct, fee_pct)

\* C21: the rungs of a ladder are settled one by one: a rung that fails changes no
\* balance and the later rungs are still tried, and a rung that fills does to the
\* wallet what a buy on its own by the flat model does, of the rung's amount at the
\* rung's price, whatever order book was given to the ladder.
C21_RungsSettleIndependently ==
    [][(Laddered /\ paper) =>
        LET r1 == RungAlone(call', 1, balances, file)
            r2 == RungAlone(call', 2, r1.bal, r1.file)
            r3 == RungAlone(call', 3, r2.bal, r2.file)
            kept == Kept(<<r1.res, r2.res, r3.res>>)
        IN  /\ r1.res.kind = "none" => r1.bal = balances
            /\ r2.res.kind = "none" => r2.bal = r1.bal
            /\ r3.res.kind = "none" => r3.bal = r2.bal
            /\ balances' = r3.bal
            /\ file' = r3.file
            /\ IF kept = <<>> THEN call'.res.kind = "none"
               ELSE call'.res.kind = "list" /\ call'.res.fills = kept]_vars

\* Two rungs of a ladder filled and the third failed
C21_Witness ==
    /\ call.op = "ladder"
    /\ paper
    /\ call.amount > 0
    /\ call.res.kind = "list"
    /\ Len(call.res.fills) = 2

\* C30: execute_ladder_order neither reads nor writes last_trade_time and does not
\* look at the side of the signal: what it returns and does to the wallet is the
\* same whatever the clock, last_trade_time and the side are, and last_trade_time is
\* the same after the call.
C30_LadderIgnoresClockAndSide ==
    [][Laddered =>
        /\ last_trade_time' = last_trade_time
        /\ \A t \in {0, MaxTime}, ltt \in {0, MaxTime}, side \in {"buy", "sell", "hold"} :
             LET r == execute_ladder_order([Engine EXCEPT !.now = t, !.ltt = ltt],
                                           [call'.signal EXCEPT !.side = side],
                                           call'.symbol, call'.amount, call'.order_book)
             IN  /\ r.res = call'.res
                 /\ r.bal = balances'
                 /\ r.file = file'
                 /\ r.ltt = ltt]_vars

\* A ladder with side sell placed its rungs inside the rate-limit interval
C30_Witness ==
    /\ call.op = "ladder"
    /\ call.signal.side = "sell"
    /\ call.res.kind = "list"
    /\ last_trade_time > 0
    /\ now - last_trade_time < MIN_TRADE_INTERVAL

\* The call hands the caller a mapping, or the caller writes to the one it holds
CallerWrote == calls' = calls + 1 /\ call'.op \in {"setitem", "delitem"}

\* C22: get_all_balances returns a snapshot copy: a caller's write to the mapping it
\* was handed changes neither the ledger (hence no later balance or withdraw check)
\* nor the file, and a later deposit or withdrawal does not change the mapping held.
C22_AllBalancesIsASnapshot ==
    [][/\ CallerWrote => balances' = balances /\ file' = file
       /\ (held.present /\ calls' = calls + 1 /\ call'.op \in {"deposit", "withdraw"})
            => Items(held', balances') = Items(held, balances)]_vars

\* What the caller of a wallet operation gets back: the log lines are not part of it
Returned(res) == IF res.kind = "none" THEN NoResult ELSE res

\* What a deposit or a withdrawal gives back when it succeeds: None, and True
ReturnedOnSuccess(op) == IF op = "deposit" THEN NoResult ELSE [kind |-> "bool", value |-> TRUE]

\* C23: a deposit or withdrawal of a negative amount leaves the ledger and the file
\* as they were and fails with an outcome the caller can tell apart from success.
C23_NegativeAmountFailsVisibly ==
    [][(calls' = calls + 1 /\ call'.op \in {"deposit", "withdraw"} /\ call'.amount < 0)
        => /\ balances' = balances
           /\ file' = file
           /\ Returned(call'.res) # ReturnedOnSuccess(call'.op)]_vars

\* C24: whether or not its save() fails, a deposit or withdrawal raises nothing, a
\* deposit of amount >= 0 adds amount to the balance in memory and returns None, a
\* withdrawal returns True exactly when amount >= 0 and the balance in memory covers
\* it and then takes amount off that balance: the file plays no part.
C24_FailedSaveKeepsTheLedger ==
    [][(calls' = calls + 1 /\ call'.op \in {"deposit", "withdraw"}) =>
        LET had == get_balance(balances, call'.currency)
            has == get_balance(balances', call'.currency)
        IN  /\ call'.res.kind # "raise"
            /\ call'.op = "deposit" =>
                 /\ call'.res.kind = "none"
                 /\ has = IF call'.amount >= 0 THEN had + call'.amount ELSE had
            /\ call'.op = "withdraw" =>
                 /\ call'.res.value <=> (call'.amount >= 0 /\ had >= call'.amount)
                 /\ has = IF call'.res.value THEN had - call'.amount ELSE had]_vars

\* A withdrawal succeeded on a balance that only memory holds: the save of the deposit
\* before it failed, the file has less than the amount, and its own save failed too
C24_Witness ==
    /\ call.op = "withdraw"
    /\ call.amount > 0
    /\ call.res.value
    /\ call.saved # "ok"
    /\ file.kind = "json"
    /\ get_balance(Load(file), call.currency) < call.amount

\* An order or a ladder was asked for on a symbol that is not base/quote
Malformed == calls' = calls + 1 /\ call'.op \in {"order", "ladder"} /\ Len(call'.symbol) # 2

\* C25: a symbol without exactly one '/' is an error found before anything else: every
\* order or ladder on such a symbol ends in an error, and changes neither the wallet
\* nor last_trade_time.
C25_MalformedSymbolIsRefused ==
    [][Malformed =>
        /\ call'.res.kind = "raise"
        /\ balances' = balances
        /\ file' = file
        /\ last_trade_time' = last_trade_time]_vars

\* C26: every execute_order call on a base/quote symbol with amount >= 0, whatever
\* the side, the price and the order book, ends by returning a fill or no result: no
\* exception leaves the engine.
C26_NoExceptionEscapes ==
    [][(calls' = calls + 1 /\ call'.op = "order" /\ Len(call'.symbol) = 2
            /\ call'.amount >= 0)
        => call'.res.kind \in {"fill", "none", "live"}]_vars

\* The levels the estimator is given for its side
ImpactLevels(c) ==
    IF c.side = "buy" THEN fetch_order_book(c.exchange).asks
    ELSE fetch_order_book(c.exchange).bids

\* C27: get_price_impact returns 0.0 without asking for the book when amount <= 0,
\* returns exactly 1.0 when amount > 0 and its side of the book has no levels, and
\* leaves the wallet, the file and last_trade_time as they were.
C27_PriceImpactEdges ==
    [][(calls' = calls + 1 /\ call'.op = "impact") =>
        /\ call'.amount <= 0 => call'.res = Impact(0, 1) /\ ~call'.fetched
        /\ (call'.amount > 0 /\ ImpactLevels(call') = <<>>) => call'.res = Impact(1, 1)
        /\ balances' = balances
        /\ file' = file
        /\ last_trade_time' = last_trade_time]_vars

\* The estimator was asked about a buy on a book that has bids only
C27_Witness ==
    /\ call.op = "impact"
    /\ call.amount > 0
    /\ call.side = "buy"
    /\ call.exchange.present
    /\ call.exchange.bids # <<>>
    /\ call.exchange.asks = <<>>
    /\ call.res = Impact(1, 1)

\* C28: settlement is all or nothing: a paper order that returns a fill has taken
\* what it paid from the asset paid and added what it got to the asset received, and a
\* paper order that returns no fill has changed no balance.
C28_SettlementAllOrNothing ==
    [][(calls' = calls + 1 /\ call'.op = "order" /\ paper) =>
        IF call'.res.kind = "fill"
        THEN LET buy == call'.res.side = "buy"
                 paid == IF buy THEN call'.symbol[2] ELSE call'.symbol[1]
                 got == IF buy THEN call'.symbol[1] ELSE call'.symbol[2]
                 out == IF buy THEN call'.res.cost ELSE Ledger(call'.res.amount)
                 inn == IF buy THEN Ledger(call'.res.amount) ELSE call'.res.cost
             IN  /\ get_balance(balances', paid) = get_balance(balances, paid) - out
                 /\ get_balance(balances', got) = get_balance(balances, got) + inn
        ELSE balances' = balances]_vars

\* The step is a paper call at a reference price above 0: an order priced by the flat
\* model, or a ladder
FlatOrder ==
    /\ calls' = calls + 1 /\ call'.op = "order" /\ paper
    /\ call'.signal.present /\ call'.signal.price # None /\ call'.signal.price[1] > 0
    /\ ~call'.order_book.present
LadderOrder ==
    /\ calls' = calls + 1 /\ call'.op = "ladder" /\ paper
    /\ call'.signal.present /\ call'.signal.price # None /\ call'.signal.price[1] > 0

\* What the step adds to the quote balance and to the base balance
QuoteGain == get_balance(balances', "USD") - get_balance(balances, "USD")
BaseGain == get_balance(balances', "BTC") - get_balance(balances, "BTC")

\* The sale that undoes the buy of the step: same amount, same price, no order book,
\* on the wallet the buy has left
SaleAfter ==
    execute_order([Engine EXCEPT !.bal = balances', !.file = file', !.now = now',
                                 !.ltt = last_trade_time'],
                  Signal("sell", call'.signal.price), call'.symbol, call'.amount, NoBook)

\* With fee_pct = 0 and slippage_pct = 0, a buy that filled and the sale of the same
\* amount at the same price give back the balances before the buy
RoundTrip ==
    (fee_pct = 0 /\ slippage_pct = 0 /\ call'.signal.side = "buy"
        /\ call'.res.kind = "fill")
    => SaleAfter.res.kind = "fill" /\ SameLedger(SaleAfter.bal, balances)

C31_OneOrderAndNeverStuck ==
    /\ [](strat.outstanding <= 1)
    /\ [][strat'.issued =>
            /\ strat.order = None
            /\ strat'.order = Some("buy") => ~strat.position
            /\ strat'.order = Some("sell") => strat.position]_vars
    /\ (strat.status \in Terminal) ~> (strat.order = None)

====
